---- MODULE Spec2Model ----
(***************************************************************************)
(* Model of the search-and-crawl pipeline of Sear-Crawl4AI:                *)
(*   src/crawler.py  WebCrawler (initialize, close, crawl_urls, the two    *)
(*                   markdown-to-text stages)                              *)
(*   src/main.py     the search and crawl entry points, startup, shutdown  *)
(*                                                                         *)
(* asyncio runs one coroutine at a time, so the code between two awaits is *)
(* one atomic step.  A request therefore advances by one action per        *)
(* suspension point: entry up to the first await, the return of            *)
(* initialize (auto-initialisation), the return of the first arun_many,    *)
(* the return of the second arun_many.                                     *)
(*                                                                         *)
(* The rendering engine (crawl4ai) and the search backend (SearXNG) are    *)
(* not part of the repository: they are the environment, which answers     *)
(* each call with any response of a bounded set, or fails the call.        *)
(* A renderer response carries one outcome per submitted URL.              *)
(*                                                                         *)
(* Text is a sequence of one-character strings.                            *)
(***************************************************************************)
EXTENDS Integers, Sequences, FiniteSets, TLC

\* ------------------------------------------------------------------ bounds
MaxBatch == 2
MaxResults == 2
MaxEngines == 2
MaxExits == 2
\* the longest text drawn over the alphabet of the substitutions
MaxText == 3

\* ------------------------------------------------------- program constants
StatusNotFound == 404
StatusError == 500

\* --------------------------------------------------------------- inputs
Procs == {1, 2}
UrlNames == <<"u1", "u2", "u3", "u4", "u5", "u6", "u7", "u8">>
\* the URLs of the batches a caller of crawl() submits (repetitions allowed)
URLs == {UrlNames[1], UrlNames[2]}
NL == "\n"
\* page texts the renderer may deliver as fit_markdown: the empty string and
\* one line of prose
Contents == {<< >>, <<"A">>}

\* sequences over S of length lo..hi
SeqsOf(S, lo, hi) == UNION {[1..n -> S] : n \in lo..hi}

Min(a, b) == IF a < b THEN a ELSE b
Max(a, b) == IF a > b THEN a ELSE b

\* ------------------------------------------------- renderer outcomes
\* One element of the list arun_many returns, as crawl_urls inspects it:
\* the object may be None, may lack the attribute success, may lack markdown
\* or markdown.fit_markdown, and fit_markdown may be None or a string.
Outcome(isNone, hasSuccess, success, hasMarkdown, hasFit, fitNull, fit) ==
    [isNone |-> isNone, hasSuccess |-> hasSuccess, success |-> success,
     hasMarkdown |-> hasMarkdown, hasFit |-> hasFit, fitNull |-> fitNull,
     fit |-> fit]

Outcomes ==
    { Outcome(TRUE, FALSE, FALSE, FALSE, FALSE, FALSE, << >>),    \* None
      Outcome(FALSE, FALSE, FALSE, FALSE, FALSE, FALSE, << >>),   \* no .success
      Outcome(FALSE, TRUE, FALSE, FALSE, FALSE, FALSE, << >>),    \* success False
      Outcome(FALSE, TRUE, TRUE, FALSE, FALSE, FALSE, << >>),     \* no .markdown
      Outcome(FALSE, TRUE, TRUE, TRUE, FALSE, FALSE, << >>),      \* no .fit_markdown
      Outcome(FALSE, TRUE, TRUE, TRUE, TRUE, TRUE, << >>) }       \* fit_markdown None
    \cup { Outcome(FALSE, TRUE, TRUE, TRUE, TRUE, FALSE, c) : c \in Contents }

\* What the renderer delivered for one URL: the page text of a successful
\* render, if the outcome carries one.
NoText == [present |-> FALSE, text |-> << >>]
Delivered(o) ==
    IF ~o.isNone /\ o.hasSuccess /\ o.success /\ o.hasMarkdown /\ o.hasFit
       /\ ~o.fitNull
    THEN [present |-> TRUE, text |-> o.fit]
    ELSE NoText

\* ------------------------------------------------- per-outcome inspection
\* The body of the try block of either loop: the block to append to
\* all_results, or no block (the URL goes to retry_urls / failed_urls).
\* fit_markdown None makes the concatenation raise TypeError, which the
\* loop's except clause turns into "no block".
NoBlock == [usable |-> FALSE, block |-> << >>]

\* Inspect without the else branch of "if result.success": an outcome whose
\* success is False yields its (empty) text as a block.
Inspect_IgnoresSuccess(result) ==
    IF result.isNone THEN NoBlock
    ELSE IF ~result.hasSuccess THEN NoBlock
    ELSE IF result.success /\ (~result.hasMarkdown \/ ~result.hasFit) THEN NoBlock
    ELSE IF result.success /\ result.fitNull THEN NoBlock
    ELSE [usable |-> TRUE, block |-> result.fit \o <<NL, NL>>]

\* The statements inside the try block for one outcome: "block" with the text
\* to append, "no_block" when a test sends the URL to the retry / failed
\* list, "raise" when a statement raises (fit_markdown None + str raises
\* TypeError).
TryBody(result) ==
    IF result.isNone THEN [kind |-> "no_block", block |-> << >>]
    ELSE IF ~result.hasSuccess THEN [kind |-> "no_block", block |-> << >>]
    ELSE IF result.success
         THEN IF ~result.hasMarkdown \/ ~result.hasFit
              THEN [kind |-> "no_block", block |-> << >>]
              ELSE IF result.fitNull THEN [kind |-> "raise", block |-> << >>]
              ELSE [kind |-> "block", block |-> result.fit \o <<NL, NL>>]
         ELSE [kind |-> "no_block", block |-> << >>]

\* try body and "except Exception": a raise inside the try body is caught
\* and the URL goes to the retry / failed list like any unusable outcome.
Inspect(result) ==
    LET t == TryBody(result) IN
    IF t.kind = "block" THEN [usable |-> TRUE, block |-> t.block]
    ELSE NoBlock

\* ------------------------------------------------------------------ text
Whitespace == {" ", NL, "\t"}

\* The grave accent (U+0060), the delimiter of code spans and fences.  A
\* TLA+ string cannot hold it, so this two-letter token stands for the one
\* character.
Backtick == "bq"

\* the first index k >= i with s[k] outside set; Len(s) + 1 when there is none
RECURSIVE SkipFrom(_, _, _)
SkipFrom(s, i, set) ==
    IF i <= Len(s) /\ s[i] \in set THEN SkipFrom(s, i + 1, set) ELSE i
\* the last index k <= i with s[k] outside set; 0 when there is none
RECURSIVE SkipBack(_, _, _)
SkipBack(s, i, set) ==
    IF i >= 1 /\ s[i] \in set THEN SkipBack(s, i - 1, set) ELSE i
\* the first index k >= i with s[k] in set; Len(s) + 1 when there is none
RECURSIVE NextIn(_, _, _)
NextIn(s, i, set) ==
    IF i <= Len(s) /\ s[i] \notin set THEN NextIn(s, i + 1, set) ELSE i

\* the first index k >= from at which pat occurs in s, with no character of
\* stop in s[from..k-1] (what a lazy ".*?" may cross); 0 when there is none
RECURSIVE Find(_, _, _, _)
Find(s, pat, from, stop) ==
    IF from + Len(pat) - 1 > Len(s) THEN 0
    ELSE IF SubSeq(s, from, from + Len(pat) - 1) = pat THEN from
    ELSE IF s[from] \in stop THEN 0
    ELSE Find(s, pat, from + 1, stop)

\* str.strip(): leading and trailing whitespace removed
LStrip(s) == SubSeq(s, SkipFrom(s, 1, Whitespace), Len(s))
RStrip(s) == SubSeq(s, 1, SkipBack(s, Len(s), Whitespace))
Strip(s) == LStrip(RStrip(s))

\* str.split("\n"): the lines of s from index i on (one more than the
\* number of newlines)
RECURSIVE SplitLines(_, _)
SplitLines(s, i) ==
    LET k == NextIn(s, i, {NL}) IN
    IF k > Len(s) THEN <<SubSeq(s, i, Len(s))>>
    ELSE <<SubSeq(s, i, k - 1)>> \o SplitLines(s, k + 1)

\* sep.join(parts)
RECURSIVE Join(_, _)
Join(sep, parts) ==
    IF parts = << >> THEN << >>
    ELSE IF Len(parts) = 1 THEN parts[1]
    ELSE parts[1] \o sep \o Join(sep, Tail(parts))

\* the stripped non-blank lines, in order
RECURSIVE KeptLines(_)
KeptLines(ls) ==
    IF ls = << >> THEN << >>
    ELSE LET line == Strip(Head(ls)) IN
         IF line # << >> THEN <<line>> \o KeptLines(Tail(ls))
         ELSE KeptLines(Tail(ls))

\* ---------------------------------------------------------------- stage 1
\* markdown.markdown and BeautifulSoup are libraries; they are modelled on
\* the markdown this model feeds them: lines of prose, blank lines, ATX
\* headings ("# Title"), and inside a line code spans (between backticks),
\* **strong** and [label](target) with plain text inside.
\*
\* The text nodes of one heading or paragraph, in document order: each run
\* of plain text is one node, and the text inside <code>, <strong> and <a>
\* is one node each.  start is where the current run of plain text began,
\* i the index to look from.
RECURSIVE InlineNodes(_, _, _)
InlineNodes(s, start, i) ==
    LET k == NextIn(s, i, {Backtick, "*", "["})
        plain == IF k > start THEN <<SubSeq(s, start, k - 1)>> ELSE << >>
        code == IF s[k] = Backtick THEN Find(s, <<Backtick>>, k + 1, {}) ELSE 0
        strong == IF k < Len(s) /\ s[k] = "*" /\ s[k + 1] = "*"
                  THEN Find(s, <<"*", "*">>, k + 2, {}) ELSE 0
        label == IF s[k] = "[" THEN Find(s, <<"]">>, k + 1, {}) ELSE 0
        target == IF label > k + 1 /\ label < Len(s) /\ s[label + 1] = "("
                  THEN Find(s, <<")">>, label + 2, {}) ELSE 0
    IN IF k > Len(s) THEN plain
       ELSE IF code > k + 1
       THEN plain \o <<SubSeq(s, k + 1, code - 1)>>
                  \o InlineNodes(s, code + 1, code + 1)
       ELSE IF strong > k + 2
       THEN plain \o <<SubSeq(s, k + 2, strong - 1)>>
                  \o InlineNodes(s, strong + 2, strong + 2)
       ELSE IF target > label + 2
       THEN plain \o <<SubSeq(s, k + 1, label - 1)>>
                  \o InlineNodes(s, target + 1, target + 1)
       ELSE InlineNodes(s, start, k + 1)

\* the text of an ATX heading line: the leading '#' (at most six) and the
\* trailing '#' removed, then stripped
HeadingText(line) ==
    LET start == Min(SkipFrom(line, 1, {"#"}), 7)
        rest == SubSeq(line, start, Len(line))
    IN Strip(SubSeq(rest, 1, SkipBack(rest, Len(rest), {"#"})))

\* The block elements of the document, each as its sequence of text nodes:
\* a blank line ends a paragraph, a line starting with '#' is a heading of
\* its own, any other line continues the paragraph (para: its lines so far).
RECURSIVE BlockElements(_, _, _)
BlockElements(lines, i, para) ==
    LET flush == IF para = << >> THEN << >>
                 ELSE <<InlineNodes(Strip(Join(<<NL>>, para)), 1, 1)>>
    IN IF i > Len(lines) THEN flush
       ELSE IF Strip(lines[i]) = << >>
       THEN flush \o BlockElements(lines, i + 1, << >>)
       ELSE IF Head(lines[i]) = "#"
       THEN flush \o <<InlineNodes(HeadingText(lines[i]), 1, 1)>>
                  \o BlockElements(lines, i + 1, << >>)
       ELSE BlockElements(lines, i + 1, Append(para, lines[i]))

\* soup.get_text(separator="\n"): every text node of the document, joined
\* with "\n".  markdown puts "\n" between two block elements, which is a
\* text node of its own.
RECURSIVE TextNodes(_)
TextNodes(elements) ==
    IF elements = << >> THEN << >>
    ELSE IF Len(elements) = 1 THEN elements[1]
    ELSE elements[1] \o <<<<NL>>>> \o TextNodes(Tail(elements))
get_text(elements, separator) == Join(separator, TextNodes(elements))

\* Stage 1: markdown to HTML, the text of the HTML with "\n" between its
\* text nodes, then the stripped non-blank lines of that text.
markdown_to_text(markdown_str) ==
    LET soup == BlockElements(SplitLines(markdown_str, 1), 1, << >>)
        text == get_text(soup, <<NL>>)
        cleaned_text == Join(<<NL>>, KeptLines(SplitLines(text, 1)))
    IN cleaned_text

\* ---------------------------------------------------------------- stage 2
\* Each substitution copies the text up to the next place where its pattern
\* can start, and there either replaces the match or keeps the character.
\*
\* re.sub(r'#+\s*', '', text): every run of '#', wherever it stands, goes
\* together with the whitespace after it.
RECURSIVE SubHeading(_, _)
SubHeading(s, i) ==
    LET k == NextIn(s, i, {"#"}) IN
    IF k > Len(s) THEN SubSeq(s, i, Len(s))
    ELSE SubSeq(s, i, k - 1)
         \o SubHeading(s, SkipFrom(s, SkipFrom(s, k, {"#"}), Whitespace))

\* re.sub(r'\[([^\]]+)\]\([^\)]+\)', r'\1', text): [label](target) becomes
\* label; label runs to the first ']', target to the first ')', both
\* non-empty.
RECURSIVE SubLink(_, _)
SubLink(s, i) ==
    LET k == NextIn(s, i, {"["})
        label == Find(s, <<"]">>, k + 1, {})
        target == IF label > k + 1 /\ label < Len(s) /\ s[label + 1] = "("
                  THEN Find(s, <<")">>, label + 2, {}) ELSE 0
    IN IF k > Len(s) THEN SubSeq(s, i, Len(s))
       ELSE IF target > label + 2
       THEN SubSeq(s, i, k - 1) \o SubSeq(s, k + 1, label - 1)
                                \o SubLink(s, target + 1)
       ELSE SubSeq(s, i, k) \o SubLink(s, k + 1)

\* the delimiter of delims (tried in order) that s has at index i, or << >>
DelimAt(s, i, delims) ==
    LET at == {j \in 1..Len(delims) :
                  /\ i + Len(delims[j]) - 1 <= Len(s)
                  /\ SubSeq(s, i, i + Len(delims[j]) - 1) = delims[j]}
    IN IF at = {} THEN << >>
       ELSE delims[CHOOSE j \in at : \A j2 \in at : j <= j2]

\* re.sub of a pattern (d)(.*?)\1 over the delimiters d: from a delimiter to
\* its next occurrence, without crossing a character of stop; the match is
\* replaced by what stands between the delimiters (keep) or by nothing.
RECURSIVE SubDelimited(_, _, _, _, _)
SubDelimited(s, i, delims, stop, keep) ==
    LET k == NextIn(s, i, {delims[j][1] : j \in 1..Len(delims)})
        d == DelimAt(s, k, delims)
        close == IF d = << >> THEN 0 ELSE Find(s, d, k + Len(d), stop)
    IN IF k > Len(s) THEN SubSeq(s, i, Len(s))
       ELSE IF close # 0
       THEN SubSeq(s, i, k - 1)
            \o (IF keep THEN SubSeq(s, k + Len(d), close - 1) ELSE << >>)
            \o SubDelimited(s, close + Len(d), delims, stop, keep)
       ELSE SubSeq(s, i, k) \o SubDelimited(s, k + 1, delims, stop, keep)

\* re.sub(r'^[marks]\s*', '', text, flags=re.MULTILINE): a mark at the start
\* of a line goes together with the whitespace after it.
RECURSIVE SubLineStart(_, _, _)
SubLineStart(s, i, marks) ==
    LET k == NextIn(s, i, marks) IN
    IF k > Len(s) THEN SubSeq(s, i, Len(s))
    ELSE IF k = 1 \/ s[k - 1] = NL
    THEN SubSeq(s, i, k - 1) \o SubLineStart(s, SkipFrom(s, k + 1, Whitespace), marks)
    ELSE SubSeq(s, i, k) \o SubLineStart(s, k + 1, marks)

\* Stage 2: the substitutions in the order of the code, then strip().
markdown_to_text_regex(markdown_str) ==
    LET t1 == SubHeading(markdown_str, 1)
        t2 == SubLink(t1, 1)
        t3 == SubDelimited(t2, 1, <<<<"*", "*">>, <<"_", "_">>>>, {NL}, TRUE)
        t4 == SubDelimited(t3, 1, <<<<"*">>, <<"_">>>>, {NL}, TRUE)
        t5 == SubLineStart(t4, 1, {"*", "-", "+"})
        t6 == SubDelimited(t5, 1, <<<<Backtick, Backtick, Backtick>>>>, {}, FALSE)
        t7 == SubDelimited(t6, 1, <<<<Backtick>>>>, {NL}, TRUE)
        t8 == SubLineStart(t7, 1, {">"})
    IN Strip(t8)

Separator == <<NL, NL, "=", "=", "=", "=", "=", "=", "=", "=", "=", "=", NL, NL>>

\* ------------------------------------------------------- the two loops
\* Pass1Loop with the retry_urls.append of the "result is None" branch left
\* out.
RECURSIVE Pass1Loop_SkipsNone(_, _, _, _)
Pass1Loop_SkipsNone(urls, results, i, st) ==
    IF i > Len(results) THEN st
    ELSE LET r == Inspect(results[i]) IN
         Pass1Loop_SkipsNone(urls, results, i + 1,
            IF r.usable
            THEN [st EXCEPT !.all_results = Append(@, r.block),
                            !.allOrigin = Append(@, i)]
            ELSE IF results[i].isNone THEN st
            ELSE [st EXCEPT !.retry_urls = Append(@, urls[i]),
                            !.retryOrigin = Append(@, i)])

\* Pass1Loop with all_results.insert(0, ...) in place of append: a usable
\* outcome puts its block in front of the blocks collected so far.
RECURSIVE Pass1Loop_Prepends(_, _, _, _)
Pass1Loop_Prepends(urls, results, i, st) ==
    IF i > Len(results) THEN st
    ELSE LET r == Inspect(results[i]) IN
         Pass1Loop_Prepends(urls, results, i + 1,
            IF r.usable
            THEN [st EXCEPT !.all_results = <<r.block>> \o @,
                            !.allOrigin = <<i>> \o @]
            ELSE [st EXCEPT !.retry_urls = Append(@, urls[i]),
                            !.retryOrigin = Append(@, i)])

\* Pass1Loop that gives up on a None outcome at once: its URL is appended to
\* failed_urls in the first loop and is not retried.
RECURSIVE Pass1Loop_FailsNone(_, _, _, _)
Pass1Loop_FailsNone(urls, results, i, st) ==
    IF i > Len(results) THEN st
    ELSE LET r == Inspect(results[i]) IN
         Pass1Loop_FailsNone(urls, results, i + 1,
            IF r.usable
            THEN [st EXCEPT !.all_results = Append(@, r.block),
                            !.allOrigin = Append(@, i)]
            ELSE IF results[i].isNone
            THEN [st EXCEPT !.failed_urls = Append(@, urls[i]),
                            !.failedOrigin = Append(@, i)]
            ELSE [st EXCEPT !.retry_urls = Append(@, urls[i]),
                            !.retryOrigin = Append(@, i)])

\* First loop over enumerate(results): a usable outcome appends its block to
\* all_results, every other outcome appends urls[i] to retry_urls.
\* allOrigin / retryOrigin record the position i in the batch that each
\* entry comes from (history, not program state).
RECURSIVE Pass1Loop(_, _, _, _)
Pass1Loop(urls, results, i, st) ==
    IF i > Len(results) THEN st
    ELSE LET r == Inspect(results[i]) IN
         Pass1Loop(urls, results, i + 1,
            IF r.usable
            THEN [st EXCEPT !.all_results = Append(@, r.block),
                            !.allOrigin = Append(@, i)]
            ELSE [st EXCEPT !.retry_urls = Append(@, urls[i]),
                            !.retryOrigin = Append(@, i)])

\* Pass2Loop with the failed_urls.append of the "success is False" branch
\* left out.
RECURSIVE Pass2Loop_DropsFailure(_, _, _)
Pass2Loop_DropsFailure(retry_results, i, st) ==
    IF i > Len(retry_results) THEN st
    ELSE LET r == Inspect(retry_results[i]) IN
         Pass2Loop_DropsFailure(retry_results, i + 1,
            IF r.usable
            THEN [st EXCEPT !.all_results = Append(@, r.block),
                            !.allOrigin = Append(@, st.retryOrigin[i])]
            ELSE IF ~retry_results[i].isNone /\ retry_results[i].hasSuccess
                    /\ ~retry_results[i].success
            THEN st
            ELSE [st EXCEPT !.failed_urls = Append(@, st.retry_urls[i]),
                            !.failedOrigin = Append(@, st.retryOrigin[i])])

\* Second loop over enumerate(retry_results): a usable outcome appends its
\* block to all_results, every other outcome appends retry_urls[i] to
\* failed_urls.
RECURSIVE Pass2Loop(_, _, _)
Pass2Loop(retry_results, i, st) ==
    IF i > Len(retry_results) THEN st
    ELSE LET r == Inspect(retry_results[i]) IN
         Pass2Loop(retry_results, i + 1,
            IF r.usable
            THEN [st EXCEPT !.all_results = Append(@, r.block),
                            !.allOrigin = Append(@, st.retryOrigin[i])]
            ELSE [st EXCEPT !.failed_urls = Append(@, st.retry_urls[i]),
                            !.failedOrigin = Append(@, st.retryOrigin[i])])

\* ------------------------------------------------------------ a request
NoResponse == [returned |-> FALSE, content |-> << >>, success_count |-> 0,
               failed_urls |-> << >>]
\* An exception in flight or raised to the caller: an HTTPException with its
\* status code, or any other Exception (http FALSE, no status code).  detail
\* stands for the message, which names the cause.
NoError == [raised |-> FALSE, http |-> FALSE, status_code |-> 0, detail |-> "none"]
HTTPException(status_code, detail) ==
    [raised |-> TRUE, http |-> TRUE, status_code |-> status_code, detail |-> detail]
Exception(detail) ==
    [raised |-> TRUE, http |-> FALSE, status_code |-> 0, detail |-> detail]

\* SearchExcept without the clause "except HTTPException: raise": every
\* exception is wrapped into HTTPException(500).
SearchExcept_Rewraps(e) == HTTPException(StatusError, e.detail)

\* crawl_urls: except Exception as e: raise HTTPException(500, str(e)).
\* HTTPException is an Exception, so this clause also catches the
\* HTTPException raised for "no block at all".
CrawlExcept(e) == HTTPException(StatusError, e.detail)

\* search: except HTTPException: raise, then
\* except Exception as e: raise HTTPException(500, str(e)).
SearchExcept(e) == IF e.http THEN e ELSE HTTPException(StatusError, e.detail)

\* The locals of one request (search or crawl) and its history.
\*   pc           off | idle | init | pass1 | pass2 | done
\*   entry        the entry point of the request
\*   limit, sres  request.limit and the records SearXNG returned (search)
\*   searched     what the search backend answered: none | raise | ok
\*   searchCalls  calls of make_searxng_request in this request
\*   calls        the arun_many calls issued, each with its urls argument,
\*                whether the handle used was an acquired one and whether it
\*                had been released before
\*   out1, out2   what the renderer delivered per position of each call
\*   wholesale    the pass whose arun_many call raised (0: none)
FreshRequest ==
    [pc |-> "idle", entry |-> "none", limit |-> 0, sres |-> << >>,
     searched |-> "none", searchCalls |-> 0,
     urls |-> << >>, calls |-> << >>, out1 |-> << >>, out2 |-> << >>,
     wholesale |-> 0,
     all_results |-> << >>, retry_urls |-> << >>, failed_urls |-> << >>,
     allOrigin |-> << >>, retryOrigin |-> << >>, failedOrigin |-> << >>,
     response |-> NoResponse, error |-> NoError]

VARIABLES
    crawler,    \* WebCrawler.crawler: 0 is None, n >= 1 the n-th engine instance
    engines,    \* AsyncWebCrawler instances entered so far (__aenter__)
    exits,      \* __aexit__ calls on the engine instance of the current handle
    req,        \* req[p]: the request of client p
    seen,       \* seen[p]: the outcomes of the renderer call answered last, as
                \* the renderer returned them (history, kept by SpecInspect)
    norm        \* a text on its way through the normaliser (SpecText)

vars == <<crawler, engines, exits, req, seen, norm>>

\* ------------------------------------------------ crawl_urls, step by step
\* self.crawler.arun_many(urls=..., config=run_config) is issued on the
\* current handle; the request waits for its answer in state nextpc.
IssueRender(st, urlsArg, handle, exitsNow, nextpc) ==
    [st EXCEPT !.pc = nextpc,
               !.calls = Append(@, [urls |-> urlsArg, acquired |-> handle # 0,
                                    released |-> exitsNow > 0])]

\* The request ends with exception e raised inside search's try block.
RaiseFromSearch(st, e) ==
    [st EXCEPT !.pc = "done", !.response = NoResponse, !.error = SearchExcept(e)]

\* RaiseFromCrawl that hands back the blocks collected so far instead of
\* raising, when there are any.
RaiseFromCrawl_ReturnsPartial(st, e) ==
    IF st.all_results # << >>
    THEN [st EXCEPT !.pc = "done",
                    !.response = [returned |-> TRUE,
                                  content |-> Join(<<NL>>, st.all_results),
                                  success_count |-> Len(st.all_results),
                                  failed_urls |-> st.failed_urls]]
    ELSE [st EXCEPT !.pc = "done", !.response = NoResponse,
                    !.error = HTTPException(StatusError, e.detail)]

\* The request ends with exception e raised inside crawl_urls' try block:
\* crawl_urls raises CrawlExcept(e); crawl() passes it on; when search called
\* crawl, it arrives inside search's try block.  Nothing is returned.
RaiseFromCrawl(st, e) ==
    IF st.entry = "search" THEN RaiseFromSearch(st, CrawlExcept(e))
    ELSE [st EXCEPT !.pc = "done", !.response = NoResponse,
                    !.error = CrawlExcept(e)]

\* crawl_urls from its first line to its first suspension: with no handle it
\* awaits initialize(), with a handle it awaits the first arun_many.
EnterCrawl(st, urls, handle, exitsNow) ==
    LET st1 == [st EXCEPT !.urls = urls] IN
    IF handle = 0 THEN [st1 EXCEPT !.pc = "init"]
    ELSE IssueRender(st1, urls, handle, exitsNow, "pass1")

\* Reduce without the test "if not all_results".
Reduce_NoEmptyTest(st) ==
    [st EXCEPT !.pc = "done",
               !.response = [returned |-> TRUE,
                             content |-> markdown_to_text_regex(markdown_to_text(
                                             Join(Separator, st.all_results))),
                             success_count |-> Len(st.all_results),
                             failed_urls |-> st.failed_urls]]

\* Reduce with '\n\n'.join(all_results) in place of the separator join.
Reduce_JoinsWithBlankLine(st) ==
    IF st.all_results = << >>
    THEN RaiseFromCrawl(st, HTTPException(StatusError, "all_failed"))
    ELSE LET combined_content == Join(<<NL, NL>>, st.all_results)
             plain_text == markdown_to_text_regex(markdown_to_text(combined_content))
         IN [st EXCEPT !.pc = "done",
                       !.response = [returned |-> TRUE,
                                     content |-> plain_text,
                                     success_count |-> Len(st.all_results),
                                     failed_urls |-> st.failed_urls]]

\* The end of crawl_urls: no block at all raises HTTPException(500), which
\* the outer except clause catches and raises again as HTTPException(500);
\* otherwise the blocks are joined, normalised and returned with the counts.
Reduce(st) ==
    IF st.all_results = << >>
    THEN RaiseFromCrawl(st, HTTPException(StatusError, "all_failed"))
    ELSE LET combined_content == Join(Separator, st.all_results)
             plain_text == markdown_to_text_regex(markdown_to_text(combined_content))
         IN [st EXCEPT !.pc = "done",
                       !.response = [returned |-> TRUE,
                                     content |-> plain_text,
                                     success_count |-> Len(st.all_results),
                                     failed_urls |-> st.failed_urls]]

\* AfterPass1 with the test "if retry_urls" left out: the second call is
\* always issued.
AfterPass1_AlwaysRetries(st, results, handle, exitsNow) ==
    LET st1 == Pass1Loop(st.urls, results, 1,
                         [st EXCEPT !.out1 = [i \in 1..Len(results) |->
                                                 Delivered(results[i])]])
    IN IssueRender(st1, st1.retry_urls, handle, exitsNow, "pass2")

\* AfterPass1 with the loop body outside any try/except: an outcome whose
\* inspection raises ends crawl_urls through its outer except clause.
AfterPass1_NoInnerTry(st, results, handle, exitsNow) ==
    LET st1 == Pass1Loop(st.urls, results, 1,
                         [st EXCEPT !.out1 = [i \in 1..Len(results) |->
                                                 Delivered(results[i])]])
    IN IF \E i \in 1..Len(results) : TryBody(results[i]).kind = "raise"
       THEN RaiseFromCrawl([st EXCEPT !.out1 = st1.out1], Exception("TypeError"))
       ELSE IF st1.retry_urls # << >>
       THEN IssueRender(st1, st1.retry_urls, handle, exitsNow, "pass2")
       ELSE Reduce(st1)

\* From the answer of the first arun_many to the next suspension or the end.
AfterPass1(st, results, handle, exitsNow) ==
    LET st1 == Pass1Loop(st.urls, results, 1,
                         [st EXCEPT !.out1 = [i \in 1..Len(results) |->
                                                 Delivered(results[i])]])
    IN IF st1.retry_urls # << >>
       THEN IssueRender(st1, st1.retry_urls, handle, exitsNow, "pass2")
       ELSE Reduce(st1)

\* AfterPass2 with a further retry: URLs that failed again are submitted to
\* the renderer once more.
AfterPass2_RetriesAgain(st, retry_results) ==
    LET st1 == Pass2Loop(retry_results, 1,
                         [st EXCEPT !.out2 = [i \in 1..Len(retry_results) |->
                                                 Delivered(retry_results[i])]])
    IN IF st1.failed_urls # << >>
       THEN IssueRender(st1, st1.failed_urls, 1, 0, "pass2")
       ELSE Reduce(st1)

\* From the answer of the second arun_many to the end.
AfterPass2(st, retry_results) ==
    Reduce(Pass2Loop(retry_results, 1,
                     [st EXCEPT !.out2 = [i \in 1..Len(retry_results) |->
                                             Delivered(retry_results[i])]]))

\* --------------------------------------------------------------- search
\* A record of the "results" list either has the key "url" or lacks it; the
\* i-th record of an answer that has one carries the i-th URL name.
NoUrl == "<no url>"
ResultLists ==
    UNION { { [i \in 1..n |-> IF has[i] THEN UrlNames[i] ELSE NoUrl] :
                 has \in [1..n -> BOOLEAN] } : n \in 0..MaxResults }
\* request.limit is any integer: negative, zero, below, at and above the
\* number of records
Limits == -1..(MaxResults + 1)
SearchAnswers ==
    { [kind |-> "raise", results |-> << >>],     \* make_searxng_request raises
      [kind |-> "nokey", results |-> << >>] }    \* a dict without "results"
    \cup { [kind |-> "ok", results |-> rs] : rs \in ResultLists }

\* results[:limit]
PySlice(results, limit) ==
    IF limit >= 0 THEN SubSeq(results, 1, Min(limit, Len(results)))
    ELSE SubSeq(results, 1, Max(Len(results) + limit, 0))

\* [result["url"] for result in ... if "url" in result]
RECURSIVE ExtractUrls(_)
ExtractUrls(results) ==
    IF results = << >> THEN << >>
    ELSE IF Head(results) # NoUrl
         THEN <<Head(results)>> \o ExtractUrls(Tail(results))
         ELSE ExtractUrls(Tail(results))

\* SearchBody without the two emptiness tests: whatever the answer holds is
\* handed to crawl.
SearchBody_NoEmptyTests(st, limit, answer, handle, exitsNow) ==
    LET st1 == [st EXCEPT !.entry = "search", !.limit = limit,
                          !.searchCalls = @ + 1,
                          !.searched = answer.kind,
                          !.sres = answer.results]
    IN IF answer.kind = "raise"
       THEN RaiseFromSearch(st1, Exception("search_failed"))
       ELSE EnterCrawl(st1, ExtractUrls(PySlice(answer.results, limit)),
                       handle, exitsNow)

\* search() from its first line to its first suspension or its end.
SearchBody(st, limit, answer, handle, exitsNow) ==
    LET st1 == [st EXCEPT !.entry = "search", !.limit = limit,
                          !.searchCalls = @ + 1,
                          !.searched = answer.kind,
                          !.sres = answer.results]
    IN IF answer.kind = "raise"
       THEN RaiseFromSearch(st1, Exception("search_failed"))
       ELSE IF answer.results = << >>
       THEN RaiseFromSearch(st1, HTTPException(StatusNotFound, "no_results"))
       ELSE LET urls == ExtractUrls(PySlice(answer.results, limit)) IN
            IF urls = << >>
            THEN RaiseFromSearch(st1, HTTPException(StatusNotFound, "no_urls"))
            ELSE EnterCrawl(st1, urls, handle, exitsNow)

\* A text on its way through the normaliser; "off" when none is.
NormOff == [pc |-> "off", input |-> << >>, output |-> << >>]

\* ------------------------------------------------------------- actions
\* The WebCrawler object is constructed and its engine handle is None.
\* Client 1 sends requests, one after the other; client 2 sends none here
\* (a specification of concurrent requests starts it as "idle" instead).
Init ==
    /\ crawler = 0
    /\ engines = 0
    /\ exits = 0
    /\ req = [p \in Procs |-> IF p = 1 THEN FreshRequest
                              ELSE [FreshRequest EXCEPT !.pc = "off"]]
    /\ seen = [p \in Procs |-> << >>]
    /\ norm = NormOff

\* WebCrawler.initialize(), as startup_event calls it: a new engine instance
\* is entered and its handle stored.
Initialize ==
    /\ engines < MaxEngines
    /\ engines' = engines + 1
    /\ crawler' = engines + 1
    /\ exits' = 0
    /\ UNCHANGED <<req, seen, norm>>

\* WebCrawler.close(), as shutdown_event calls it: the stored handle, if any,
\* is exited; the field keeps the handle.
Close ==
    /\ crawler # 0
    /\ exits < MaxExits
    /\ exits' = exits + 1
    /\ UNCHANGED <<crawler, engines, req, seen, norm>>

\* POST /search
Search(p) ==
    /\ req[p].pc = "idle"
    /\ \E limit \in Limits, answer \in SearchAnswers :
          req' = [req EXCEPT ![p] = SearchBody(FreshRequest, limit, answer,
                                               crawler, exits)]
    /\ UNCHANGED <<crawler, engines, exits, seen, norm>>

\* crawl(): crawl_urls on a batch given by the caller, drawn from batches
CrawlOf(p, batches) ==
    /\ req[p].pc = "idle"
    /\ \E urls \in batches :
          req' = [req EXCEPT ![p] = EnterCrawl([FreshRequest EXCEPT !.entry = "crawl"],
                                               urls, crawler, exits)]
    /\ UNCHANGED <<crawler, engines, exits, seen, norm>>
Crawl(p) == CrawlOf(p, SeqsOf(URLs, 0, MaxBatch))

\* await self.initialize() inside crawl_urls returns or raises
InitializeReturn(p) ==
    /\ req[p].pc = "init"
    /\ \/ /\ engines < MaxEngines
          /\ engines' = engines + 1
          /\ crawler' = engines + 1
          /\ exits' = 0
          /\ req' = [req EXCEPT ![p] = IssueRender(@, @.urls, engines + 1, 0,
                                                   "pass1")]
       \/ /\ req' = [req EXCEPT ![p] = RaiseFromCrawl(@, Exception("initialize_failed"))]
          /\ UNCHANGED <<crawler, engines, exits>>
    /\ UNCHANGED <<seen, norm>>

\* Pass1Of with the retry list kept on the WebCrawler object instead of in
\* a local: the URLs that the first loop of one call appends also land in the
\* retry list of every other call that awaits its first arun_many.
Pass1Of_SharedRetryList(p, outcomes, record) ==
    /\ req[p].pc = "pass1"
    /\ \/ \E results \in [1..Len(req[p].urls) -> outcomes] :
             LET mine == AfterPass1(req[p], results, crawler, exits) IN
             /\ req' = [q \in Procs |->
                          IF q = p THEN mine
                          ELSE IF req[q].pc = "pass1"
                          THEN [req[q] EXCEPT
                                  !.retry_urls = @ \o mine.retry_urls,
                                  !.retryOrigin = @ \o [k \in 1..Len(mine.retry_urls) |-> 0]]
                          ELSE req[q]]
             /\ seen' = IF record THEN [seen EXCEPT ![p] = results] ELSE seen
       \/ /\ req' = [req EXCEPT ![p] = RaiseFromCrawl([@ EXCEPT !.wholesale = 1],
                                                      Exception("render_failed"))]
          /\ UNCHANGED seen
    /\ UNCHANGED <<crawler, engines, exits, norm>>

\* The first arun_many returns one outcome per URL, drawn from outcomes, or
\* raises.  With record, the outcomes are kept in seen[p] as returned.
Pass1Of(p, outcomes, record) ==
    /\ req[p].pc = "pass1"
    /\ \/ \E results \in [1..Len(req[p].urls) -> outcomes] :
             /\ req' = [req EXCEPT ![p] = AfterPass1(@, results, crawler, exits)]
             /\ seen' = IF record THEN [seen EXCEPT ![p] = results] ELSE seen
       \/ /\ req' = [req EXCEPT ![p] = RaiseFromCrawl([@ EXCEPT !.wholesale = 1],
                                                      Exception("render_failed"))]
          /\ UNCHANGED seen
    /\ UNCHANGED <<crawler, engines, exits, norm>>
Pass1Return(p) == Pass1Of(p, Outcomes, FALSE)

\* The second arun_many returns one outcome per retried URL, drawn from
\* outcomes, or raises.
Pass2Of(p, outcomes, record) ==
    /\ req[p].pc = "pass2"
    /\ \/ \E retry_results \in [1..Len(req[p].retry_urls) -> outcomes] :
             /\ req' = [req EXCEPT ![p] = AfterPass2(@, retry_results)]
             /\ seen' = IF record THEN [seen EXCEPT ![p] = retry_results] ELSE seen
       \/ /\ req' = [req EXCEPT ![p] = RaiseFromCrawl([@ EXCEPT !.wholesale = 2],
                                                      Exception("render_failed"))]
          /\ UNCHANGED seen
    /\ UNCHANGED <<crawler, engines, exits, norm>>
Pass2Return(p) == Pass2Of(p, Outcomes, FALSE)

\* the result or the exception has reached the caller; the client may send
\* its next request
Respond(p) ==
    /\ req[p].pc = "done"
    /\ req' = [req EXCEPT ![p] = FreshRequest]
    /\ seen' = [seen EXCEPT ![p] = << >>]
    /\ UNCHANGED <<crawler, engines, exits, norm>>

Next ==
    \/ Initialize
    \/ Close
    \/ \E p \in Procs : Search(p)
    \/ \E p \in Procs : Crawl(p)
    \/ \E p \in Procs : InitializeReturn(p)
    \/ \E p \in Procs : Pass1Return(p)
    \/ \E p \in Procs : Pass2Return(p)
    \/ \E p \in Procs : Respond(p)

Spec == Init /\ [][Next]_vars

\* ------------------------------------------- outcomes kept as returned
\* The service after startup_event (the engine handle is acquired), serving
\* POST /crawl; every answer of the renderer is kept in seen as returned.
InitInspect ==
    /\ crawler = 1
    /\ engines = 1
    /\ exits = 0
    /\ req = [p \in Procs |-> IF p = 1 THEN FreshRequest
                              ELSE [FreshRequest EXCEPT !.pc = "off"]]
    /\ seen = [p \in Procs |-> << >>]
    /\ norm = NormOff
Pass1Inspected(p) == Pass1Of(p, Outcomes, TRUE)
Pass2Inspected(p) == Pass2Of(p, Outcomes, TRUE)
NextInspect ==
    \/ \E p \in Procs : Crawl(p)
    \/ \E p \in Procs : Pass1Inspected(p)
    \/ \E p \in Procs : Pass2Inspected(p)
    \/ \E p \in Procs : Respond(p)
SpecInspect == InitInspect /\ [][NextInspect]_vars

\* ------------------------------------------------- concurrent requests
\* Two clients call crawl_urls on one WebCrawler whose handle is still None
\* (constructed, initialize() not yet awaited); the calls interleave at
\* their await points.  Each client has its own URLs and its own page text:
\* its batch is the first n of its URLs, and the renderer answers each URL
\* with None or with that text.
OwnBatch(p, n) == [i \in 1..n |-> UrlNames[(p - 1) * (MaxBatch + 1) + i]]
OwnBatches(p) == {OwnBatch(p, n) : n \in 0..MaxBatch}
PageText(p) == IF p = 1 THEN <<"A">> ELSE <<"B">>
OwnOutcomes(p) ==
    { Outcome(TRUE, FALSE, FALSE, FALSE, FALSE, FALSE, << >>),
      Outcome(FALSE, TRUE, TRUE, TRUE, TRUE, FALSE, PageText(p)) }
InitConc ==
    /\ crawler = 0
    /\ engines = 0
    /\ exits = 0
    /\ req = [p \in Procs |-> FreshRequest]
    /\ seen = [p \in Procs |-> << >>]
    /\ norm = NormOff
CrawlOwn(p) == CrawlOf(p, OwnBatches(p))
Pass1Own(p) == Pass1Of(p, OwnOutcomes(p), FALSE)
Pass2Own(p) == Pass2Of(p, OwnOutcomes(p), FALSE)
NextConc ==
    \/ \E p \in Procs : CrawlOwn(p)
    \/ \E p \in Procs : InitializeReturn(p)
    \/ \E p \in Procs : Pass1Own(p)
    \/ \E p \in Procs : Pass2Own(p)
    \/ \E p \in Procs : Respond(p)
SpecConc == InitConc /\ [][NextConc]_vars

\* ------------------------------------------------- the normaliser alone
\* Texts for the substitutions of stage 2: every text up to MaxText
\* characters over prose, whitespace and the markers the patterns look for.
RegexAlphabet == {"a", "#", " ", NL, "*", "-", Backtick, ">"}
RegexTexts == SeqsOf(RegexAlphabet, 0, MaxText)

\* The text of the markup-cleanup scenario:
\*   # Title
\*   **bold** and [link](http://x) and (backtick)code(backtick)
Scenario ==
    <<"#", " ", "T", "i", "t", "l", "e", NL,
      "*", "*", "b", "o", "l", "d", "*", "*", " ", "a", "n", "d", " ",
      "[", "l", "i", "n", "k", "]", "(", "h", "t", "t", "p", ":", "/", "/", "x", ")",
      " ", "a", "n", "d", " ", Backtick, "c", "o", "d", "e", Backtick>>
\* Markdown texts for both stages: the scenario, its constructs one by one,
\* prose with a '#' inside a line, and two blocks as crawl_urls joins them.
MarkdownTexts ==
    { Scenario,
      <<"a", " ", "b">>,
      <<"a", NL, NL, "b">>,
      <<"#", " ", "T">>,
      <<"a", "#", "b">>,
      <<"*", "*", "b", "*", "*", " ", "c">>,
      <<"a", " ", Backtick, "c", Backtick>>,
      <<"[", "l", "]", "(", "x", ")", " ", "c">>,
      Join(Separator, <<<<"A", NL, NL>>, <<"B", NL, NL>>>>) }

\* A text is given to the normaliser; no request is being served.
InitText ==
    /\ crawler = 0
    /\ engines = 0
    /\ exits = 0
    /\ req = [p \in Procs |-> [FreshRequest EXCEPT !.pc = "off"]]
    /\ seen = [p \in Procs |-> << >>]
    /\ norm \in {[pc |-> "input", input |-> t, output |-> << >>] :
                    t \in RegexTexts \cup MarkdownTexts}

\* markdown_to_text_regex(text), called on the text as it is
RegexOnly ==
    /\ norm.pc = "input"
    /\ norm' = [norm EXCEPT !.pc = "regex",
                            !.output = markdown_to_text_regex(norm.input)]
    /\ UNCHANGED <<crawler, engines, exits, req, seen>>

\* self.markdown_to_text_regex(self.markdown_to_text(text)), inner call
Stage1 ==
    /\ norm.pc = "input"
    /\ norm.input \in MarkdownTexts
    /\ norm' = [norm EXCEPT !.pc = "stage1",
                            !.output = markdown_to_text(norm.input)]
    /\ UNCHANGED <<crawler, engines, exits, req, seen>>

\* self.markdown_to_text_regex(self.markdown_to_text(text)), outer call
Stage2 ==
    /\ norm.pc = "stage1"
    /\ norm' = [norm EXCEPT !.pc = "normalised",
                            !.output = markdown_to_text_regex(norm.output)]
    /\ UNCHANGED <<crawler, engines, exits, req, seen>>

NextText == RegexOnly \/ Stage1 \/ Stage2
SpecText == InitText /\ [][NextText]_vars

\* ------------------------------------------------------ pages of prose
\* The service after startup_event, serving POST /crawl for pages whose
\* fit_markdown is one line of plain prose (no markup characters); the
\* renderer answers each URL with None or with one of these texts.
Prose == {<<"A">>, <<"B">>, <<"a", " ", "b">>}
ProseOutcomes ==
    { Outcome(TRUE, FALSE, FALSE, FALSE, FALSE, FALSE, << >>) }
    \cup { Outcome(FALSE, TRUE, TRUE, TRUE, TRUE, FALSE, c) : c \in Prose }
Pass1Prose(p) == Pass1Of(p, ProseOutcomes, FALSE)
Pass2Prose(p) == Pass2Of(p, ProseOutcomes, FALSE)
NextProse ==
    \/ \E p \in Procs : Crawl(p)
    \/ \E p \in Procs : Pass1Prose(p)
    \/ \E p \in Procs : Pass2Prose(p)
    \/ \E p \in Procs : Respond(p)
SpecProse == InitInspect /\ [][NextProse]_vars

\* =================================================================
\* Properties
\* =================================================================
Done(p) == req[p].pc = "done"
Returned(p) == req[p].response.returned
Raised(p) == req[p].error.raised

\* An outcome is usable when the renderer reports success and the outcome
\* carries a content string (spec 3: "renderer succeeded and returned content
\* passing validity checks"); d is what was delivered for one position.
UsableOutcome(d) == d.present

\* the first renderer call has been answered with outcomes
Pass1Answered(p) ==
    /\ req[p].calls # << >>
    /\ req[p].pc \in {"pass2", "done"}
    /\ req[p].wholesale # 1
\* the second renderer call has been answered with outcomes
Pass2Answered(p) ==
    /\ Len(req[p].calls) >= 2
    /\ req[p].pc = "done"
    /\ req[p].wholesale = 0

\* how often x occurs in sequence s
Occurrences(s, x) == Cardinality({k \in 1..Len(s) : s[k] = x})

\* C1: a crawl_urls call that returns a result accounts for every position of
\* the original batch exactly once: the URL at that position either
\* contributed exactly one block to all_results or is listed exactly once in
\* failed_urls (with its own URL), never both and never neither; hence
\* success_count + len(failed_urls) = len(urls).  URLs may repeat in the batch.
C1_EveryUrlAccountedOnce ==
    \A p \in Procs :
        (Done(p) /\ Returned(p)) =>
            LET r == req[p] IN
            /\ \A i \in 1..Len(r.urls) :
                  Occurrences(r.allOrigin, i) + Occurrences(r.failedOrigin, i) = 1
            /\ \A k \in 1..Len(r.allOrigin) : r.allOrigin[k] \in 1..Len(r.urls)
            /\ \A k \in 1..Len(r.failedOrigin) : r.failedOrigin[k] \in 1..Len(r.urls)
            /\ Len(r.failedOrigin) = Len(r.response.failed_urls)
            /\ \A k \in 1..Len(r.failedOrigin) :
                  r.response.failed_urls[k] = r.urls[r.failedOrigin[k]]
            /\ Len(r.allOrigin) = r.response.success_count
            /\ r.response.success_count + Len(r.response.failed_urls) = Len(r.urls)

\* a returned result for a batch that repeats one URL: one occurrence gave a
\* block, the other failed twice
C1_Witness ==
    \E p \in Procs :
        /\ Done(p) /\ Returned(p)
        /\ req[p].urls = <<UrlNames[1], UrlNames[1]>>
        /\ req[p].response.success_count = 1
        /\ req[p].response.failed_urls = <<UrlNames[1]>>

\* C2: for a non-empty batch whose pass-1 outcomes are all usable, crawl_urls
\* returns failed_urls = [], success_count = len(urls), and the renderer was
\* called exactly once.
C2_AllUsableFirstPass ==
    \A p \in Procs :
        (/\ Done(p) /\ Pass1Answered(p)
         /\ req[p].urls # << >>
         /\ Len(req[p].out1) = Len(req[p].urls)
         /\ \A i \in 1..Len(req[p].out1) : UsableOutcome(req[p].out1[i]))
        => /\ Returned(p) /\ ~Raised(p)
           /\ req[p].response.failed_urls = << >>
           /\ req[p].response.success_count = Len(req[p].urls)
           /\ Len(req[p].calls) = 1

C2_Witness ==
    \E p \in Procs :
        /\ Done(p) /\ Returned(p)
        /\ Len(req[p].urls) = 2
        /\ \A i \in 1..2 : UsableOutcome(req[p].out1[i])
        /\ Len(req[p].calls) = 1
        /\ req[p].response.success_count = 2

\* the URLs of urls whose outcome in out is not usable, from position i on,
\* in the order of urls
RECURSIVE UnusableFrom(_, _, _)
UnusableFrom(urls, out, i) ==
    IF i > Len(urls) THEN << >>
    ELSE (IF UsableOutcome(out[i]) THEN << >> ELSE <<urls[i]>>)
         \o UnusableFrom(urls, out, i + 1)

\* the positions of out whose outcome is not usable, from position i on,
\* in increasing order
RECURSIVE UnusableIdx(_, _)
UnusableIdx(out, i) ==
    IF i > Len(out) THEN << >>
    ELSE (IF UsableOutcome(out[i]) THEN << >> ELSE <<i>>) \o UnusableIdx(out, i + 1)

\* C3: when pass 1 yields at least one unusable outcome, the retry call is
\* issued exactly once (two renderer calls in all, the first with the whole
\* batch) and its urls argument is exactly the sub-sequence of the batch whose
\* pass-1 outcome was unusable, in the order of the batch.
C3_RetryIsUnusableSubsequence ==
    \A p \in Procs :
        (/\ Pass1Answered(p)
         /\ Len(req[p].out1) = Len(req[p].urls)
         /\ \E i \in 1..Len(req[p].out1) : ~UsableOutcome(req[p].out1[i]))
        => /\ Len(req[p].calls) = 2
           /\ req[p].calls[1].urls = req[p].urls
           /\ req[p].calls[2].urls = UnusableFrom(req[p].urls, req[p].out1, 1)

\* pass 1 of a two-URL batch: the first outcome unusable, the second usable;
\* the retry call carries the first URL only
C3_Witness ==
    \E p \in Procs :
        /\ Pass1Answered(p)
        /\ req[p].urls = <<UrlNames[2], UrlNames[1]>>
        /\ ~UsableOutcome(req[p].out1[1]) /\ UsableOutcome(req[p].out1[2])
        /\ Len(req[p].calls) = 2
        /\ req[p].calls[2].urls = <<UrlNames[2]>>

\* the positions of the batch whose outcome was unusable in pass 1 and again
\* in pass 2 (the k-th unusable position of pass 1 is the k-th retried URL)
TwiceUnusable(r) ==
    LET idx1 == UnusableIdx(r.out1, 1) IN
    {idx1[k] : k \in {j \in 1..Len(r.out2) : j <= Len(idx1) /\ ~UsableOutcome(r.out2[j])}}

\* C4: in a returned result, every position of the batch whose outcome was
\* unusable in both passes has its URL listed in failed_urls, no block of
\* all_results (the blocks that make up content) comes from it, and it is not
\* counted in success_count.
C4_TwiceUnusableIsFailed ==
    \A p \in Procs :
        (Done(p) /\ Returned(p)) =>
            LET r == req[p] IN
            /\ \A i \in TwiceUnusable(r) :
                  /\ \E k \in 1..Len(r.response.failed_urls) :
                        /\ r.response.failed_urls[k] = r.urls[i]
                        /\ r.failedOrigin[k] = i
                  /\ \A k \in 1..Len(r.allOrigin) : r.allOrigin[k] # i
            /\ Len(r.response.failed_urls) = Cardinality(TwiceUnusable(r))
            /\ r.response.success_count = Len(r.urls) - Cardinality(TwiceUnusable(r))
            /\ r.response.success_count = Len(r.all_results)

\* scenario B: two URLs, the first unusable in both passes, the second usable
\* in pass 1; the result counts one success and lists the first URL as failed
C4_Witness ==
    \E p \in Procs :
        /\ Done(p) /\ Returned(p)
        /\ req[p].urls = <<UrlNames[1], UrlNames[2]>>
        /\ TwiceUnusable(req[p]) = {1}
        /\ UsableOutcome(req[p].out1[2])
        /\ req[p].response.success_count = 1
        /\ req[p].response.failed_urls = <<UrlNames[1]>>

\* C5: the renderer is called at most twice in one crawl_urls call, whatever
\* it answers; once the second call is answered no further call is issued and
\* failed_urls is exactly the list of retried URLs whose pass-2 outcome was
\* unusable, which a returned result reports unchanged.
C5_AtMostTwoPasses ==
    \A p \in Procs :
        /\ Len(req[p].calls) <= 2
        /\ Pass2Answered(p) =>
              /\ Len(req[p].calls) = 2
              /\ Len(req[p].out2) = Len(req[p].calls[2].urls)
              /\ req[p].failed_urls = UnusableFrom(req[p].calls[2].urls, req[p].out2, 1)
              /\ Returned(p) => req[p].response.failed_urls = req[p].failed_urls

\* both URLs of a batch were unusable in pass 1; in pass 2 one is usable and
\* the other fails again and stays in failed_urls after exactly two calls
C5_Witness ==
    \E p \in Procs :
        /\ Pass2Answered(p) /\ Returned(p)
        /\ Len(req[p].calls) = 2
        /\ Len(req[p].calls[2].urls) = 2
        /\ Len(req[p].response.failed_urls) = 1

\* both fetch passes of the call are over (the second only if it was needed)
\* and neither arun_many call raised
FetchCompleted(p) ==
    /\ Done(p)
    /\ req[p].calls # << >>
    /\ req[p].wholesale = 0
    /\ Len(req[p].out1) = Len(req[p].urls)

\* no outcome of either pass was usable
NoUsableOutcome(p) ==
    /\ \A i \in 1..Len(req[p].out1) : ~UsableOutcome(req[p].out1[i])
    /\ \A k \in 1..Len(req[p].out2) : ~UsableOutcome(req[p].out2[k])

\* C6: whenever no usable block exists after the fetch passes (the empty
\* batch included, whatever failed_urls holds), crawl_urls raises the
\* all-fetches-failed HTTPException with status 500 and returns no content,
\* success_count or failed_urls.
C6_NoBlockIsAllFailed ==
    \A p \in Procs :
        (FetchCompleted(p) /\ (req[p].all_results = << >> \/ NoUsableOutcome(p)))
        => /\ Raised(p) /\ ~Returned(p)
           /\ req[p].error.http
           /\ req[p].error.status_code = StatusError
           /\ req[p].error.detail = "all_failed"
           /\ req[p].response = NoResponse

\* both URLs of a batch failed twice: failed_urls holds both, and the call
\* ends with the all-fetches-failed error
C6_Witness ==
    \E p \in Procs :
        /\ FetchCompleted(p) /\ NoUsableOutcome(p)
        /\ req[p].failed_urls = <<UrlNames[1], UrlNames[2]>>
        /\ Raised(p) /\ req[p].error.detail = "all_failed"

\* C7: the caller of crawl_urls gets either a complete result or one error,
\* never both, and nothing before the call is over.  A result is complete:
\* both passes were answered, content is the normalised join of all blocks,
\* success_count their number and failed_urls the URLs that failed twice.
\* When an arun_many call raises, in pass 1 or in pass 2, the call ends with
\* an HTTPException(500) and the blocks collected in pass 1 are not returned.
C7_ResultOrError ==
    \A p \in Procs :
        LET r == req[p] IN
        /\ ~(Returned(p) /\ Raised(p))
        /\ Done(p) <=> (Returned(p) \/ Raised(p))
        /\ Returned(p) =>
              /\ FetchCompleted(p)
              /\ Len(r.out2) = Len(r.retry_urls)
              /\ r.all_results # << >>
              /\ r.response.content =
                    markdown_to_text_regex(markdown_to_text(Join(Separator, r.all_results)))
              /\ r.response.success_count = Len(r.all_results)
              /\ r.response.failed_urls = r.failed_urls
        /\ Raised(p) => (r.response = NoResponse /\ r.error.http)
        /\ r.wholesale # 0 =>
              /\ Done(p) /\ Raised(p) /\ ~Returned(p)
              /\ r.error.status_code = StatusError

\* the second arun_many call raised after pass 1 had collected a block: the
\* call ended with an error
C7_Witness ==
    \E p \in Procs :
        /\ Done(p)
        /\ req[p].wholesale = 2
        /\ req[p].all_results # << >>
        /\ Raised(p)

\* C8: when the search backend returns an empty result set, search raises
\* HTTPException(404) "no results" and no arun_many call is issued in that
\* request.
C8_EmptySearchIsNotFound ==
    \A p \in Procs :
        (/\ req[p].entry = "search"
         /\ req[p].searched \in {"ok", "nokey"}
         /\ req[p].sres = << >>)
        => /\ Done(p) /\ Raised(p) /\ ~Returned(p)
           /\ req[p].error.status_code = StatusNotFound
           /\ req[p].error.detail = "no_results"
           /\ req[p].calls = << >>
           /\ req[p].urls = << >>

C8_Witness ==
    \E p \in Procs :
        /\ req[p].entry = "search"
        /\ req[p].searched = "ok"
        /\ req[p].sres = << >>
        /\ req[p].error.status_code = StatusNotFound

\* C9: in a search request the class of the error that reaches the caller is
\* the class raised: no-results and no-valid-URLs arrive as 404 (never wrapped
\* into 500), a failure of the search backend, of a renderer call or of all
\* fetches arrives as 500, and make_searxng_request is called exactly once.
C9_ErrorClassPreserved ==
    \A p \in Procs :
        req[p].entry = "search" =>
            LET r == req[p] IN
            /\ r.searchCalls = 1
            /\ Raised(p) => (r.error.http /\ Done(p))
            /\ r.searched = "raise" =>
                  (Raised(p) /\ r.error.status_code = StatusError /\ r.calls = << >>)
            /\ (r.searched # "raise" /\ r.sres = << >>) =>
                  (Raised(p) /\ r.error.status_code = StatusNotFound)
            /\ (Done(p) /\ r.searched = "ok" /\ r.sres # << >> /\ r.urls = << >>) =>
                  (Raised(p) /\ r.error.status_code = StatusNotFound)
            /\ (FetchCompleted(p) /\ NoUsableOutcome(p)) =>
                  (Raised(p) /\ r.error.status_code = StatusError)
            /\ r.wholesale # 0 => (Raised(p) /\ r.error.status_code = StatusError)
            /\ Raised(p) =>
                  (r.error.status_code = StatusNotFound
                      <=> r.error.detail \in {"no_results", "no_urls"})

\* a search whose records carry no URL ended with 404 after one call of the
\* search backend
C9_Witness ==
    \E p \in Procs :
        /\ req[p].entry = "search" /\ Done(p)
        /\ req[p].sres # << >>
        /\ req[p].error.detail = "no_urls"
        /\ req[p].error.status_code = StatusNotFound
        /\ req[p].searchCalls = 1

\* C10: for every search answer and every integer limit, the batch that
\* search hands to crawl_urls holds at most limit URLs.
C10_BatchAtMostLimit ==
    \A p \in Procs :
        (req[p].entry = "search" /\ req[p].urls # << >>)
        => Len(req[p].urls) <= req[p].limit


\* some record of the search answer carries a URL
CarriesUrl(sres) == \E i \in 1..Len(sres) : sres[i] # NoUrl

\* C11: for a non-empty search answer and a limit of at least 1, the search
\* ends with the no-valid-URLs error exactly when no record carries a URL;
\* when some record carries one, crawl_urls is entered with a non-empty batch.
C11_NoUrlsOnlyWhenNoneCarried ==
    \A p \in Procs :
        LET r == req[p] IN
        (r.entry = "search" /\ r.searched = "ok" /\ r.sres # << >> /\ r.limit >= 1)
        => /\ (r.error.detail = "no_urls") <=> ~CarriesUrl(r.sres)
           /\ CarriesUrl(r.sres) => r.urls # << >>


\* the blocks of the usable outcomes of out from position i on, in the order
\* of out: the delivered text followed by a blank line
RECURSIVE UsableBlocks(_, _)
UsableBlocks(out, i) ==
    IF i > Len(out) THEN << >>
    ELSE IF UsableOutcome(out[i])
         THEN <<out[i].text \o <<NL, NL>>>> \o UsableBlocks(out, i + 1)
         ELSE UsableBlocks(out, i + 1)
\* the positions of the usable outcomes of out from position i on, each
\* named by idx (its position in the original batch)
RECURSIVE UsableIdx(_, _, _)
UsableIdx(out, idx, i) ==
    IF i > Len(out) THEN << >>
    ELSE IF UsableOutcome(out[i])
         THEN <<idx[i]>> \o UsableIdx(out, idx, i + 1)
         ELSE UsableIdx(out, idx, i + 1)
Positions(n) == [i \in 1..n |-> i]

\* C12: once the first renderer call is answered, all_results (the blocks
\* that are joined into the content) holds the blocks of the usable pass-1
\* outcomes in batch order, followed (once the second call is answered) by
\* the blocks of the usable pass-2 outcomes in retry-list order: the block
\* order is a function of the batch and the two responses.
C12_BlocksInPassThenBatchOrder ==
    \A p \in Procs :
        Pass1Answered(p) =>
            LET r == req[p]
                blocks == UsableBlocks(r.out1, 1) \o UsableBlocks(r.out2, 1)
            IN /\ r.all_results = blocks
               /\ r.allOrigin = UsableIdx(r.out1, Positions(Len(r.out1)), 1)
                                \o UsableIdx(r.out2, r.retryOrigin, 1)
               /\ Returned(p) => r.response.success_count = Len(blocks)

\* a returned result whose first block comes from position 2 of the batch
\* (usable in pass 1) and whose second block comes from position 1 (usable
\* only in pass 2), with different texts
C12_Witness ==
    \E p \in Procs :
        /\ Done(p) /\ Returned(p) /\ Pass2Answered(p)
        /\ req[p].allOrigin = <<2, 1>>
        /\ req[p].all_results = <<<<NL, NL>>, <<"A", NL, NL>>>>


\* seen[p] holds the answer of the first renderer call
SeenPass1(p) == seen[p] # << >> /\ ~Pass2Answered(p)
\* seen[p] holds the answer of the second renderer call
SeenPass2(p) == seen[p] # << >> /\ Pass2Answered(p)

\* the renderer reports success but the outcome carries no content: the
\* content attribute is missing, is None, or is the empty string
SuccessWithoutContent(o) ==
    /\ ~o.isNone /\ o.hasSuccess /\ o.success
    /\ (~o.hasMarkdown \/ ~o.hasFit \/ o.fitNull \/ o.fit = << >>)

\* C13: an outcome with success true and content absent or empty is never
\* counted as usable: in pass 1 its URL is on the retry list, in pass 2 its
\* URL is in failed_urls, and in both it contributes no block, so
\* success_count does not count it.
C13_SuccessWithoutContentUnusable ==
    \A p \in Procs :
        LET r == req[p] IN
        /\ SeenPass1(p) =>
              \A i \in 1..Len(seen[p]) :
                 SuccessWithoutContent(seen[p][i]) =>
                    /\ \E k \in 1..Len(r.retry_urls) :
                          r.retryOrigin[k] = i /\ r.retry_urls[k] = r.urls[i]
                    /\ \A k \in 1..Len(r.allOrigin) : r.allOrigin[k] # i
        /\ SeenPass2(p) =>
              \A j \in 1..Len(seen[p]) :
                 SuccessWithoutContent(seen[p][j]) =>
                    /\ \E k \in 1..Len(r.failed_urls) :
                          /\ r.failedOrigin[k] = r.retryOrigin[j]
                          /\ r.failed_urls[k] = r.retry_urls[j]
                    /\ \A k \in 1..Len(r.allOrigin) : r.allOrigin[k] # r.retryOrigin[j]
        /\ Returned(p) => r.response.success_count = Len(r.allOrigin)


\* inspecting the outcome raises: success is true, the attributes exist and
\* fit_markdown is None, so that fit_markdown + '\n\n' raises TypeError
RaisesOnInspection(o) ==
    /\ ~o.isNone /\ o.hasSuccess /\ o.success
    /\ o.hasMarkdown /\ o.hasFit /\ o.fitNull

\* C14: an outcome whose inspection raises does not end the batch.  In pass 1
\* its URL is on the retry list, every position of the batch is classified
\* (block or retry) and the second renderer call is issued with the retry
\* list; in pass 2 its URL is in failed_urls, every retried position is
\* classified (block or failed) and crawl_urls ends as for any other
\* unusable outcome: with a result, or with the no-block error.
C14_InspectionErrorIsContained ==
    \A p \in Procs :
        LET r == req[p] IN
        /\ SeenPass1(p) =>
              \A i \in 1..Len(seen[p]) :
                 RaisesOnInspection(seen[p][i]) =>
                    /\ \E k \in 1..Len(r.retry_urls) :
                          r.retryOrigin[k] = i /\ r.retry_urls[k] = r.urls[i]
                    /\ \A j \in 1..Len(r.urls) :
                          Occurrences(r.allOrigin, j) + Occurrences(r.retryOrigin, j) = 1
                    /\ Len(r.calls) = 2 /\ r.calls[2].urls = r.retry_urls
                    /\ Raised(p) => r.wholesale = 2
        /\ SeenPass2(p) =>
              \A j \in 1..Len(seen[p]) :
                 RaisesOnInspection(seen[p][j]) =>
                    /\ \E k \in 1..Len(r.failed_urls) :
                          /\ r.failedOrigin[k] = r.retryOrigin[j]
                          /\ r.failed_urls[k] = r.retry_urls[j]
                    /\ \A i \in 1..Len(r.urls) :
                          Occurrences(r.allOrigin, i) + Occurrences(r.failedOrigin, i) = 1
                    /\ Returned(p) \/ r.error.detail = "all_failed"

\* both URLs were retried; in pass 2 the inspection of the first outcome
\* raised and the second outcome, inspected after it, gave the block of the
\* returned result
C14_Witness ==
    \E p \in Procs :
        /\ SeenPass2(p) /\ Returned(p)
        /\ Len(seen[p]) = 2
        /\ RaisesOnInspection(seen[p][1])
        /\ req[p].failed_urls = <<req[p].urls[1]>>
        /\ req[p].allOrigin = <<2>>
        /\ req[p].all_results = <<<<"A", NL, NL>>>>


\* C16: failed_urls is empty until the second renderer call has been
\* answered, and every entry of the failed_urls of a returned result is a
\* URL of the batch that was submitted in the first call (at its position in
\* the batch) and again in the second call (at its position in the retry
\* list).
C16_FailureDecidedInPass2 ==
    \A p \in Procs :
        LET r == req[p] IN
        /\ r.failed_urls # << >> => Pass2Answered(p)
        /\ Returned(p) =>
              /\ r.response.failed_urls = r.failed_urls
              /\ \A k \in 1..Len(r.failed_urls) :
                    /\ Len(r.calls) = 2
                    /\ r.failedOrigin[k] \in 1..Len(r.calls[1].urls)
                    /\ r.calls[1].urls[r.failedOrigin[k]] = r.failed_urls[k]
                    /\ \E j \in 1..Len(r.calls[2].urls) :
                          /\ r.retryOrigin[j] = r.failedOrigin[k]
                          /\ r.calls[2].urls[j] = r.failed_urls[k]

\* a returned result that lists u2 as failed after both calls: u1 gave a
\* block in pass 1, u2 was submitted again and was unusable again
C16_Witness ==
    \E p \in Procs :
        /\ Done(p) /\ Returned(p)
        /\ req[p].urls = <<UrlNames[1], UrlNames[2]>>
        /\ Len(req[p].calls) = 2
        /\ req[p].calls[2].urls = <<UrlNames[2]>>
        /\ req[p].response.failed_urls = <<UrlNames[2]>>


\* C17: in every step of concurrent crawl_urls calls on one WebCrawler, at
\* most one engine instance has been created by lazy initialisation, and a
\* handle once stored in self.crawler is not replaced by another.
C17_HandleAcquiredOnce ==
    [][/\ engines' <= 1
       /\ crawler # 0 => crawler' = crawler]_vars


\* C18: over every sequence of initialize, crawl_urls and close, the engine
\* instance of an acquired handle is exited at most once, and every renderer
\* call is issued on a handle that has been acquired and not yet released.
C18_ReleasedOnceNeverUsedAfter ==
    /\ exits <= 1
    /\ \A p \in Procs :
          \A k \in 1..Len(req[p].calls) :
             /\ req[p].calls[k].acquired
             /\ ~req[p].calls[k].released


\* the elements of sequence s
Range(s) == {s[k] : k \in 1..Len(s)}

\* C19: with two crawl_urls calls interleaved at their await points, the
\* retry list, the blocks and the returned result of each call are what its
\* own batch and the renderer's answers to its own two calls determine (as
\* for a call running alone), and every URL and block in them is its own.
C19_CallsDoNotInterfere ==
    \A p \in Procs :
        LET r == req[p]
            retry == UnusableFrom(r.urls, r.out1, 1)
            failed == UnusableFrom(retry, r.out2, 1)
            blocks == UsableBlocks(r.out1, 1) \o UsableBlocks(r.out2, 1)
        IN /\ Pass1Answered(p) =>
                /\ r.retry_urls = retry
                /\ retry # << >> => (Len(r.calls) = 2 /\ r.calls[2].urls = retry)
                /\ retry = << >> => Len(r.calls) = 1
                /\ r.calls[1].urls = r.urls
           /\ (Done(p) /\ Returned(p)) =>
                /\ r.all_results = blocks
                /\ r.response = [returned |-> TRUE,
                                 content |-> markdown_to_text_regex(
                                                markdown_to_text(Join(Separator, blocks))),
                                 success_count |-> Len(blocks),
                                 failed_urls |-> failed]
           /\ Range(r.retry_urls) \cup Range(r.failed_urls) \subseteq Range(r.urls)
           /\ \A k \in 1..Len(r.calls) : Range(r.calls[k].urls) \subseteq Range(r.urls)
           /\ \A k \in 1..Len(r.all_results) :
                 r.all_results[k] = PageText(p) \o <<NL, NL>>

\* both calls found no handle and initialised (so they overlapped), both
\* retried, and both have returned: each its own block and its own failed URL
C19_Witness ==
    /\ engines = 2
    /\ \A p \in Procs :
          /\ Done(p) /\ Returned(p)
          /\ Len(req[p].urls) = 2 /\ Len(req[p].calls) = 2
          /\ req[p].all_results = <<PageText(p) \o <<NL, NL>>>>
          /\ req[p].response.failed_urls = <<req[p].urls[1]>>
    /\ req[1].response.content = <<"A">> /\ req[2].response.content = <<"B">>


\* index i of s holds a '#' of a run that does not start a line
HashInsideLine(s, i) ==
    /\ s[i] = "#"
    /\ LET j == CHOOSE j \in 1..i :
                   /\ \A k \in j..i : s[k] = "#"
                   /\ j = 1 \/ s[j - 1] # "#"
       IN j > 1 /\ s[j - 1] # NL

\* C20: markdown_to_text_regex leaves every run of '#' that does not start a
\* line in its output: the output holds at least as many '#' as the input
\* holds in such runs.
C20_HashInsideLineKept ==
    norm.pc = "regex" =>
        Occurrences(norm.output, "#")
            >= Cardinality({i \in 1..Len(norm.input) : HashInsideLine(norm.input, i)})

\* the output the markup-cleanup scenario names
ScenarioExpected ==
    <<"T", "i", "t", "l", "e", NL,
      "b", "o", "l", "d", " ", "a", "n", "d", " ", "l", "i", "n", "k", " ",
      "a", "n", "d", " ", "c", "o", "d", "e">>

\* C15: the normaliser maps the scenario text to "Title", a newline, and
\* "bold and link and code" on one line.
C15_ScenarioOutput ==
    (norm.pc = "normalised" /\ norm.input = Scenario)
        => norm.output = ScenarioExpected


\* the texts of the usable outcomes of out from position i on, in order
RECURSIVE UsableTexts(_, _)
UsableTexts(out, i) ==
    IF i > Len(out) THEN << >>
    ELSE IF UsableOutcome(out[i])
         THEN <<out[i].text>> \o UsableTexts(out, i + 1)
         ELSE UsableTexts(out, i + 1)
\* the texts of the blocks of a request, in block order
BlockTexts(r) == UsableTexts(r.out1, 1) \o UsableTexts(r.out2, 1)
\* the run of '=' of the separator, without the newlines around it
SeparatorRule == SubSeq(Separator, 3, Len(Separator) - 2)

\* C21 as stated: the content returned for two blocks of plain prose A and B
\* is A, then the separator with its blank lines, then B.
C21_SeparatorUnchanged ==
    \A p \in Procs :
        (Done(p) /\ Returned(p) /\ Len(req[p].all_results) = 2) =>
            LET texts == BlockTexts(req[p]) IN
            req[p].response.content = texts[1] \o Separator \o texts[2]

\* C21, amended: the content returned for blocks of plain prose is the block
\* texts in block order with the run of ten '=' on a line of its own between
\* two neighbours; the run of '=' is kept as it is, and the blank lines of
\* the separator and of the block ends are dropped.
C21_SeparatorRuleBetweenBlocks ==
    \A p \in Procs :
        (Done(p) /\ Returned(p)) =>
            /\ Len(BlockTexts(req[p])) = Len(req[p].all_results)
            /\ req[p].response.content
                  = Join(<<NL>> \o SeparatorRule \o <<NL>>, BlockTexts(req[p]))

\* a result of two blocks, B from pass 1 and A from pass 2: its content is B,
\* the line of '=', A
C21_Witness ==
    \E p \in Procs :
        /\ Done(p) /\ Returned(p) /\ Pass2Answered(p)
        /\ req[p].all_results = <<<<"B", NL, NL>>, <<"A", NL, NL>>>>
        /\ req[p].response.content
              = <<"B", NL, "=", "=", "=", "=", "=", "=", "=", "=", "=", "=", NL, "A">>

====
